---- MODULE Spec2Model ----
(***************************************************************************)
(* A model of pofmt (src/src/pofmt/core.py): the width model, Entry        *)
(* formatting, the Source parser, Source.fix and the cli() file loop.      *)
(*                                                                         *)
(* A string is a sequence of characters, a character a one-letter string.  *)
(* The letter "W" stands for one full-width character (east_asian_width in *)
(* W, A or F, such as U+4E2D); every other letter is itself.  The alphabet *)
(* of message texts holds no tab, no hyphen and no CJK punctuation.        *)
(* Line numbers are 0-based as in the code: line k of a list ls is ls[k+1].*)
(***************************************************************************)
EXTENDS Integers, Sequences, FiniteSets, TLC

(***************************************************************************)
(* Bounds of the model.                                                    *)
(***************************************************************************)
MaxLines == 4
MaxCatalogLines == 5
MaxGen == 1
MaxText == 5
MaxFiles == 3

(***************************************************************************)
(* Strings.                                                                *)
(***************************************************************************)
Q == "\""
S_msgid == <<"m", "s", "g", "i", "d">>
S_msgstr == <<"m", "s", "g", "s", "t", "r">>
S_hash == <<"#">>
S_fuzzyprefix == <<"#", ",", " ">>
S_fuzzy == <<"f", "u", "z", "z", "y">>

\* str.startswith(prefix)
StartsWith(s, prefix) ==
    /\ Len(s) >= Len(prefix)
    /\ SubSeq(s, 1, Len(prefix)) = prefix

\* s[k:] of Python, k >= 0
From(s, k) == IF k >= Len(s) THEN <<>> ELSE SubSeq(s, k + 1, Len(s))

\* s[:k] of Python, k >= 0
UpTo(s, k) == IF k >= Len(s) THEN s ELSE SubSeq(s, 1, k)

IsSpace(c) == c = " "

AllSpace(s) == \A i \in 1..Len(s) : IsSpace(s[i])

RECURSIVE LStrip(_)
LStrip(s) == IF s # <<>> /\ IsSpace(Head(s)) THEN LStrip(Tail(s)) ELSE s

RECURSIVE RStrip(_)
RStrip(s) ==
    IF s # <<>> /\ IsSpace(s[Len(s)]) THEN RStrip(SubSeq(s, 1, Len(s) - 1)) ELSE s

\* str.strip()
Strip(s) == RStrip(LStrip(s))

RECURSIVE Join(_)
\* "".join(parts)
Join(parts) == IF parts = <<>> THEN <<>> ELSE Head(parts) \o Join(Tail(parts))

RECURSIVE Flatten(_)
\* [x for xs in lists for x in xs]
Flatten(lists) == IF lists = <<>> THEN <<>> ELSE Head(lists) \o Flatten(Tail(lists))

\* re.match(MESSAGE_RE, s) with MESSAGE_RE = "(.*)"[ ]*$ : s opens with a
\* quote, and the greedy group ends at the last quote, which only spaces
\* may follow.  NoMatch when there is none, else <<group(1)>>.
QuotePositions(s) == {j \in 2..Len(s) : s[j] = Q /\ AllSpace(From(s, j))}

MaxOf(S) == CHOOSE x \in S : \A y \in S : y <= x

MessageMatch(s) ==
    IF s # <<>> /\ s[1] = Q /\ QuotePositions(s) # {}
    THEN <<SubSeq(s, 2, MaxOf(QuotePositions(s)) - 1)>>
    ELSE <<>>

(***************************************************************************)
(* Width model.  The factor is kept in tenths: 18 is the default 1.8.      *)
(***************************************************************************)
is_full_width(c) == c = "W"

RECURSIVE WidthTenths(_, _)
\* sum(factor if is_full_width(c) else 1 for c in text), in tenths
WidthTenths(text, factor) ==
    IF text = <<>> THEN 0
    ELSE (IF is_full_width(Head(text)) THEN factor ELSE 10)
         + WidthTenths(Tail(text), factor)

\* new_len rounding the sum up instead of truncating it
new_len_ceil(text, factor) == (WidthTenths(text, factor) + 9) \div 10

\* new_len of len_with_cjk_width_factor: int() truncates the sum
new_len(text, factor) == WidthTenths(text, factor) \div 10

(***************************************************************************)
(* Entry: process_text, the textwrap.TextWrapper the code configures, and  *)
(* format.                                                                 *)
(***************************************************************************)
RECURSIVE EscapeFrom(_, _)
\* re.sub(r'(?<!\\)"', '\\"', text): a quote not preceded by a backslash
\* gets one
EscapeFrom(text, i) ==
    IF i > Len(text) THEN <<>>
    ELSE (IF text[i] = Q /\ (i = 1 \/ text[i - 1] # "\\")
          THEN <<"\\", Q>>
          ELSE <<text[i]>>)
         \o EscapeFrom(text, i + 1)

escape_quotes(text) == EscapeFrom(text, 1)

\* pangu is an optional import; the model is of an installation without it
process_text(lines) == escape_quotes(Join(lines))

\* The length of the run of characters at the head of s that are all
\* whitespace (sp = TRUE) or all not whitespace (sp = FALSE).
RECURSIVE RunLen(_, _)
RunLen(s, sp) ==
    IF s # <<>> /\ IsSpace(Head(s)) = sp THEN 1 + RunLen(Tail(s), sp) ELSE 0

RECURSIVE SplitChunks(_)
\* TextWrapper._split: wordsep_re.split(text) without the empty strings.
\* On a text without hyphens and CJK punctuation the pattern, also as
\* _format_text extends it, matches the runs of whitespace and the runs
\* of other characters.
SplitChunks(text) ==
    IF text = <<>> THEN <<>>
    ELSE LET k == RunLen(text, IsSpace(Head(text)))
         IN  <<SubSeq(text, 1, k)>> \o SplitChunks(From(text, k))

RECURSIVE FillLine(_, _, _, _, _)
\* The inner loop of _wrap_chunks: chunks move to the line while they fit,
\* measured with the installed len.  <<cur_line, cur_len, chunks left>>
FillLine(chunks, cur_line, cur_len, width, factor) ==
    IF chunks # <<>> /\ cur_len + new_len(Head(chunks), factor) <= width
    THEN FillLine(Tail(chunks), Append(cur_line, Head(chunks)),
                  cur_len + new_len(Head(chunks), factor), width, factor)
    ELSE <<cur_line, cur_len, chunks>>

\* _handle_long_word with break_long_words: the line takes the first
\* space_left characters of the chunk, counted as characters.
\* <<cur_line, chunks left>>
HandleLongWord(chunks, cur_line, cur_len, width) ==
    LET space_left == IF width < 1 THEN 1 ELSE width - cur_len
        chunk == Head(chunks)
    IN  <<Append(cur_line, UpTo(chunk, space_left)),
          <<From(chunk, space_left)>> \o Tail(chunks)>>

RECURSIVE WrapChunks(_, _, _)
\* TextWrapper._wrap_chunks with drop_whitespace=False and no indent
WrapChunks(chunks, width, factor) ==
    IF chunks = <<>> THEN <<>>
    ELSE LET f == FillLine(chunks, <<>>, 0, width, factor)
             long == f[3] # <<>> /\ new_len(Head(f[3]), factor) > width
             h == IF long THEN HandleLongWord(f[3], f[1], f[2], width)
                  ELSE <<f[1], f[3]>>
         IN  (IF h[1] # <<>> THEN <<Join(h[1])>> ELSE <<>>)
             \o WrapChunks(h[2], width, factor)

\* TextWrapper(width, drop_whitespace=False).wrap(text), width > 0
Wrap(text, width, factor) == WrapChunks(SplitChunks(text), width, factor)

S_newline == <<"\\", "n">>

RECURSIVE SplitNewline(_, _)
\* text.split("\\n"): the pieces between the two-character sequences \n;
\* cur is the piece being read
SplitNewline(text, cur) ==
    IF text = <<>> THEN <<cur>>
    ELSE IF StartsWith(text, S_newline)
         THEN <<cur>> \o SplitNewline(From(text, 2), <<>>)
         ELSE SplitNewline(Tail(text), Append(cur, Head(text)))

\* paras = [f"{para}\\n" for para in text.split("\\n")];
\* paras[-1] = paras[-1][:-2]
Paras(text) ==
    LET pieces == SplitNewline(text, <<>>)
    IN  [i \in 1..Len(pieces) |->
            IF i < Len(pieces) THEN pieces[i] \o S_newline ELSE pieces[i]]

Quoted(text) == <<Q>> \o text \o <<Q>>

Titled(title, text) == title \o <<" ">> \o Quoted(text)

\* Entry._format_text; msgid is self.msgid
_format_text(msgid, title, lines, width, factor, reformat) ==
    IF ~reformat
    THEN <<Titled(title, lines[1])>>
         \o [i \in 1..(Len(lines) - 1) |-> Quoted(lines[i + 1])]
    ELSE LET text == process_text(lines)
         IN  IF new_len(title, factor) + new_len(text, factor) + 3 <= width
             THEN <<Titled(title, text)>>
             ELSE LET wrapped ==
                          IF msgid = << <<>> >>
                          THEN Flatten([i \in 1..Len(Paras(text)) |->
                                           Wrap(Paras(text)[i], width - 2, factor)])
                          ELSE Wrap(text, width - 2, factor)
                  IN  <<Titled(title, <<>>)>>
                      \o [i \in 1..Len(wrapped) |-> Quoted(wrapped[i])]

\* Entry.format
format(entry, width, cjk_width_factor, no_msgid) ==
    _format_text(entry.msgid, S_msgid, entry.msgid, width, cjk_width_factor, ~no_msgid)
    \o _format_text(entry.msgid, S_msgstr, entry.msgstr, width, cjk_width_factor, TRUE)

(***************************************************************************)
(* Source: the parser.  A parse run ends "ok" or, at the first             *)
(* parse_error, "ParseError" with the message and the line number the      *)
(* error reports (self.lineno).  The three messages that quote the line    *)
(* they expect are named "Expect msgid", "Expect msgstr", "Expect string". *)
(***************************************************************************)
Span(start, end) == [start |-> start, end |-> end]

Entry(span, msgid, msgstr) == [span |-> span, msgid |-> msgid, msgstr |-> msgstr]

\* parse_error(message): lineno defaults to the cursor
parse_error(lineno, message) ==
    [status |-> "ParseError", lineno |-> lineno, msg |-> message]

\* EntryReturn with the arguments of Span exchanged
EntryReturnSwapped(lineno, msgid, msgstr, start_line) ==
    IF msgstr = <<>>
    THEN parse_error(lineno, "Missing msgstr")
    ELSE [status |-> "ok", lineno |-> lineno,
          entry |-> Entry(Span(lineno, start_line), msgid, msgstr)]

\* The end of _parse_entry, with the cursor at lineno
EntryReturn(lineno, msgid, msgstr, start_line) ==
    IF msgstr = <<>>
    THEN parse_error(lineno, "Missing msgstr")
    ELSE [status |-> "ok", lineno |-> lineno,
          entry |-> Entry(Span(start_line, lineno), msgid, msgstr)]

\* The cursor after the break of _parse_entry at the msgid line (or the
\* second msgstr line) that the cursor is on
Rewind(lineno) == lineno - 1

RECURSIVE EntryLoop(_, _, _, _, _, _)
\* The loop of _parse_entry: temp is "msgid", "msgstr" or "none" (the list
\* temp is bound to)
EntryLoop(ls, lineno, msgid, msgstr, temp, start_line) ==
    LET n == lineno + 1
        line == ls[n + 1]
    IN  IF n >= Len(ls) \/ Strip(line) = <<>>
        THEN EntryReturn(n, msgid, msgstr, start_line)
        ELSE IF StartsWith(line, S_hash)
        THEN EntryLoop(ls, n, msgid, msgstr, temp, start_line)
        ELSE IF StartsWith(line, S_msgid)
        THEN IF msgid # <<>>
             THEN EntryReturn(Rewind(n), msgid, msgstr, start_line)
             ELSE LET match == MessageMatch(From(line, 6))
                  IN  IF match = <<>>
                      THEN parse_error(n, "Expect msgid")
                      ELSE EntryLoop(ls, n, <<match[1]>>, msgstr, "msgid", n)
        ELSE IF StartsWith(line, S_msgstr)
        THEN IF msgstr # <<>>
             THEN EntryReturn(Rewind(n), msgid, msgstr, start_line)
             ELSE LET match == MessageMatch(From(line, 7))
                  IN  IF match = <<>>
                      THEN parse_error(n, "Expect msgstr")
                      ELSE EntryLoop(ls, n, msgid, <<match[1]>>, "msgstr", start_line)
        ELSE LET match == MessageMatch(line)
             IN  IF match = <<>>
                 THEN parse_error(n, "Expect string")
                 ELSE EntryLoop(ls, n,
                                IF temp = "msgid" THEN Append(msgid, match[1]) ELSE msgid,
                                IF temp = "msgstr" THEN Append(msgstr, match[1]) ELSE msgstr,
                                temp, start_line)

\* Source._parse_entry, called with the cursor at lineno
_parse_entry(ls, lineno) == EntryLoop(ls, lineno, <<>>, <<>>, "none", lineno)

\* line.startswith("#, ") and line[3:].strip() == "fuzzy"
IsFuzzyMarker(line) ==
    StartsWith(line, S_fuzzyprefix) /\ Strip(From(line, 3)) = S_fuzzy

\* AlreadyParsed comparing with > in place of >=
AlreadyParsedStrict(lineno) == lineno > 0

\* The guard of parse: a cursor that has moved
AlreadyParsed(lineno) == lineno >= 0

RECURSIVE ParseLoop(_, _, _)
\* The loop of Source.parse
ParseLoop(ls, lineno, entries) ==
    LET n == lineno + 1
        line == ls[n + 1]
    IN  IF n >= Len(ls)
        THEN [status |-> "ok", lineno |-> n, entries |-> entries]
        ELSE IF IsFuzzyMarker(line)
        THEN LET r == _parse_entry(ls, n)
             IN  IF r.status = "ok"
                 THEN ParseLoop(ls, r.lineno, entries)
                 ELSE r @@ [entries |-> entries]
        ELSE IF Strip(line) = <<>> \/ StartsWith(line, S_hash)
        THEN ParseLoop(ls, n, entries)
        ELSE IF StartsWith(line, S_msgid)
        THEN LET r == _parse_entry(ls, n - 1)
             IN  IF r.status = "ok"
                 THEN ParseLoop(ls, r.lineno, Append(entries, r.entry))
                 ELSE r @@ [entries |-> entries]
        ELSE parse_error(n, "Unexpected token") @@ [entries |-> entries]

\* lines[start:end] = new
Splice(ls, start, end, new) ==
    UpTo(ls, start) \o new \o From(ls, IF end < start THEN start ELSE end)

RECURSIVE FixLines(_, _, _, _, _)
\* The loop of Source.fix over reversed(self._entries)
FixLines(ls, entries, line_length, cjk_width, no_msgid) ==
    IF entries = <<>> THEN ls
    ELSE LET e == entries[Len(entries)]
         IN  FixLines(Splice(ls, e.span.start, e.span.end,
                             format(e, line_length, cjk_width, no_msgid)),
                      SubSeq(entries, 1, Len(entries) - 1),
                      line_length, cjk_width, no_msgid)

\* Source.diff: unified_diff yields a line exactly when the lists differ
diff(a, b) == a # b

(***************************************************************************)
(* State.                                                                  *)
(*   A Source: lines, original (_original), lineno, entries (_entries);    *)
(*   result is the outcome of the last call of parse() or fix() on it;     *)
(*   first records the call that ran the parser, with its arguments and    *)
(*   outcome; gen counts the Sources built from the lines an earlier       *)
(*   Source's fix left, and prev holds the arguments of that fix.          *)
(*   An Entry under format(): entry, fmt_args, fmt_out; len_out is what    *)
(*   the len installed with factor len_factor returns for the Entry's      *)
(*   msgstr text.                                                          *)
(*   A cli() run: args, files (the matched paths' contents, in glob        *)
(*   order), files0 (the contents at the start), next (the index of the    *)
(*   path the loop is at), processed (how often each path was handled),    *)
(*   identical, changed, errors, rc.                                       *)
(***************************************************************************)
VARIABLES lines, original, lineno, entries, result, first, gen, prev,
          entry, fmt_args, fmt_out, len_factor, len_out,
          args, files, files0, next, processed, identical, changed, errors, rc

source_vars == <<lines, original, lineno, entries, result, first, gen, prev>>
entry_vars == <<entry, fmt_args, fmt_out, len_factor, len_out>>
cli_vars == <<args, files, files0, next, processed, identical, changed, errors, rc>>
vars == <<source_vars, entry_vars, cli_vars>>

\* All sequences over S of length at most n
SeqUpTo(S, n) == UNION {[1..k -> S] : k \in 0..n}

(***************************************************************************)
(* Inputs of the model.                                                    *)
(***************************************************************************)
L_blank == <<>>
L_comment == <<"#", " ", "c">>
L_fuzzy == S_fuzzyprefix \o S_fuzzy
L_msgid == Titled(S_msgid, <<"a">>)
L_msgstr == Titled(S_msgstr, <<"b">>)
L_cont == Quoted(<<"W", " ", "c">>)
L_junk == <<"x">>

LineSet == {L_blank, L_comment, L_fuzzy, L_msgid, L_msgstr, L_cont, L_junk}

\* --line-length: two small ones, and the default
ShortLength == 5
NarrowLength == 10
DefaultLength == 76
Lengths == {NarrowLength, DefaultLength}

\* --cjk-width in tenths: the default 1.8
DefaultCjkWidth == 18

NoArgs == [line_length |-> 0, cjk_width |-> 0, no_msgid |-> FALSE]

FixArgs == [line_length : Lengths, cjk_width : {DefaultCjkWidth}, no_msgid : BOOLEAN]

NoResult == [op |-> "none", status |-> "none", errline |-> -1, msg |-> "",
             changed |-> FALSE]

NoCall == [op |-> "none", args |-> NoArgs, status |-> "none", errline |-> -1,
           msg |-> "", changed |-> FALSE]

EntryIdle ==
    /\ entry = Entry(Span(0, 0), <<>>, <<>>)
    /\ fmt_args = NoArgs
    /\ fmt_out = <<>>
    /\ len_factor = 0
    /\ len_out = -1

CliIdle ==
    /\ args = NoArgs @@ [check |-> FALSE]
    /\ files = <<>>
    /\ files0 = <<>>
    /\ next = 0
    /\ processed = <<>>
    /\ identical = 0
    /\ changed = 0
    /\ errors = 0
    /\ rc = -1

SourceIdle ==
    /\ lines = <<>>
    /\ original = <<>>
    /\ lineno = -1
    /\ entries = <<>>
    /\ result = NoResult
    /\ first = NoCall
    /\ gen = 0
    /\ prev = NoArgs

(***************************************************************************)
(* Source: construction, parse(), fix().                                   *)
(***************************************************************************)
\* Source(filename, lines)
Init ==
    /\ lines \in SeqUpTo(LineSet, MaxLines)
    /\ original = lines
    /\ lineno = -1
    /\ entries = <<>>
    /\ result = NoResult
    /\ first = NoCall
    /\ gen = 0
    /\ prev = NoArgs
    /\ EntryIdle
    /\ CliIdle

\* A call on a Source whose cursor has moved: RuntimeError, nothing changes
Misuse(op) ==
    /\ result' = [op |-> op, status |-> "RuntimeError", errline |-> -1, msg |-> "",
                  changed |-> FALSE]
    /\ UNCHANGED <<lines, original, lineno, entries, first, gen, prev>>

\* The outcome of a call that ran the parser
Outcome(op, r, ch) ==
    [op |-> op, status |-> r.status,
     errline |-> IF r.status = "ParseError" THEN r.lineno ELSE -1,
     msg |-> IF r.status = "ParseError" THEN r.msg ELSE "",
     changed |-> ch]

\* Source.parse()
Parse ==
    /\ IF AlreadyParsed(lineno)
       THEN Misuse("parse")
       ELSE LET r == ParseLoop(lines, lineno, entries)
            IN  /\ lineno' = r.lineno
                /\ entries' = r.entries
                /\ result' = Outcome("parse", r, FALSE)
                /\ first' = Outcome("parse", r, FALSE) @@ [args |-> NoArgs]
                /\ UNCHANGED <<lines, original, gen, prev>>
    /\ UNCHANGED <<entry_vars, cli_vars>>

\* The body of Source.fix on a Source whose cursor is at lineno and whose
\* parsed entries are es: the parse run, the lines it leaves, what diff
\* returns
fix(ls, orig, ln, es, a) ==
    LET r == ParseLoop(ls, ln, es)
        new == IF r.status = "ok"
               THEN FixLines(ls, r.entries, a.line_length, a.cjk_width, a.no_msgid)
               ELSE ls
    IN  [parse |-> r, lines |-> new, changed |-> r.status = "ok" /\ diff(orig, new)]

\* Source.fix(line_length, cjk_width, no_msgid)
Fix(a) ==
    /\ IF AlreadyParsed(lineno)
       THEN Misuse("fix")
       ELSE LET f == fix(lines, original, lineno, entries, a)
            IN  /\ lineno' = f.parse.lineno
                /\ entries' = f.parse.entries
                /\ lines' = f.lines
                /\ result' = Outcome("fix", f.parse, f.changed)
                /\ first' = Outcome("fix", f.parse, f.changed) @@ [args |-> a]
                /\ UNCHANGED <<original, gen, prev>>
    /\ UNCHANGED <<entry_vars, cli_vars>>

\* Source(filename, lines) on the lines a completed fix() left
NewSource ==
    /\ first.op = "fix"
    /\ first.status = "ok"
    /\ gen < MaxGen
    /\ original' = lines
    /\ lineno' = -1
    /\ entries' = <<>>
    /\ result' = NoResult
    /\ first' = NoCall
    /\ gen' = gen + 1
    /\ prev' = first.args
    /\ UNCHANGED <<lines, entry_vars, cli_vars>>

Next ==
    \/ Parse
    \/ \E a \in FixArgs : Fix(a)
    \/ NewSource

Spec == Init /\ [][Next]_vars

(***************************************************************************)
(* The same Source operations on longer inputs of the well-formed line     *)
(* shapes of a catalog.                                                    *)
(***************************************************************************)
CatalogLineSet == {L_blank, L_comment, L_fuzzy, L_msgid, L_msgstr}

InitCatalog ==
    /\ lines \in SeqUpTo(CatalogLineSet, MaxCatalogLines)
    /\ original = lines
    /\ lineno = -1
    /\ entries = <<>>
    /\ result = NoResult
    /\ first = NoCall
    /\ gen = 0
    /\ prev = NoArgs
    /\ EntryIdle
    /\ CliIdle

SpecCatalog == InitCatalog /\ [][Next]_vars

(***************************************************************************)
(* Entry.format and the installed len, each applied once to an Entry with  *)
(* a one-fragment msgstr.                                                  *)
(***************************************************************************)
TextChars == {"a", " ", "W"}

Texts == SeqUpTo(TextChars, MaxText)

\* the header msgid, and one other
MsgIds == {<< <<>> >>, << <<"a">> >>}

\* factors in tenths: 1.0, 1.5, the default 1.8, 2.0
Factors == {10, 15, DefaultCjkWidth, 20}

FormatArgs == [line_length : {ShortLength, NarrowLength}, cjk_width : Factors,
               no_msgid : BOOLEAN]

InitEntry ==
    /\ entry \in {Entry(Span(0, 2), m, <<t>>) : m \in MsgIds, t \in Texts}
    /\ fmt_args = NoArgs
    /\ fmt_out = <<>>
    /\ len_factor = 0
    /\ len_out = -1
    /\ SourceIdle
    /\ CliIdle

\* entry.format(width, cjk_width_factor, no_msgid)
Format(a) ==
    /\ fmt_args = NoArgs
    /\ fmt_args' = a
    /\ fmt_out' = format(entry, a.line_length, a.cjk_width, a.no_msgid)
    /\ UNCHANGED <<entry, len_factor, len_out, source_vars, cli_vars>>

\* len(text) inside len_with_cjk_width_factor(factor)
Measure(factor) ==
    /\ len_factor = 0
    /\ len_factor' = factor
    /\ len_out' = new_len(entry.msgstr[1], factor)
    /\ UNCHANGED <<entry, fmt_args, fmt_out, source_vars, cli_vars>>

NextEntry ==
    \/ \E a \in FormatArgs : Format(a)
    \/ \E f \in Factors : Measure(f)

SpecEntry == InitEntry /\ [][NextEntry]_vars

(***************************************************************************)
(* cli(): the loop over the matched paths.                                 *)
(***************************************************************************)
F_identical == <<L_msgid, L_msgstr>>
F_changed == <<L_msgid, L_msgstr, L_cont>>
F_missing == <<L_msgid>>
F_junk == <<L_comment, L_junk>>

FileSet == {F_identical, F_changed, F_missing, F_junk}

CliArgs == [line_length : Lengths, cjk_width : {DefaultCjkWidth}, no_msgid : {FALSE},
            check : BOOLEAN]

InitCli ==
    /\ args \in CliArgs
    /\ files \in SeqUpTo(FileSet, MaxFiles)
    /\ files0 = files
    /\ next = 1
    /\ processed = [i \in 1..Len(files) |-> 0]
    /\ identical = 0
    /\ changed = 0
    /\ errors = 0
    /\ rc = -1
    /\ SourceIdle
    /\ EntryIdle

\* OnParseError without the except clause: the error ends the loop
OnParseErrorAbort(i, n) == n + 1

\* except ParseError: ... continue -- the loop goes on with the path after
\* path i of n
OnParseError(i, n) == i + 1

\* One pass of the loop body: Source(path), fix, write, the counters
CliFile ==
    /\ rc = -1
    /\ next <= Len(files)
    /\ LET ls == files[next]
           f == fix(ls, ls, -1, <<>>, args)
       IN  IF f.parse.status = "ParseError"
           THEN /\ errors' = errors + 1
                /\ next' = OnParseError(next, Len(files))
                /\ UNCHANGED <<files, changed, identical>>
           ELSE /\ IF f.changed
                   THEN /\ files' = IF args.check THEN files
                                    ELSE [files EXCEPT ![next] = f.lines]
                        /\ changed' = changed + 1
                        /\ UNCHANGED identical
                   ELSE /\ identical' = identical + 1
                        /\ UNCHANGED <<files, changed>>
                /\ next' = next + 1
                /\ UNCHANGED errors
    /\ processed' = [processed EXCEPT ![next] = @ + 1]
    /\ UNCHANGED <<args, files0, rc, source_vars, entry_vars>>

\* After the loop: the summary and the exit code
CliReturn ==
    /\ rc = -1
    /\ next > Len(files)
    /\ rc' = IF changed # 0 \/ errors # 0 THEN 1 ELSE 0
    /\ UNCHANGED <<args, files, files0, next, processed, identical, changed, errors,
                   source_vars, entry_vars>>

NextCli ==
    \/ CliFile
    \/ CliReturn

SpecCli == InitCli /\ [][NextCli]_vars

(***************************************************************************)
(* Properties.  Line k below is 0-based: Line(ls, k) is the code's ls[k].  *)
(***************************************************************************)
Line(ls, k) == ls[k + 1]

Indexes(ls) == 0..(Len(ls) - 1)

IsBlankLine(l) == Strip(l) = <<>>
IsCommentLine(l) == StartsWith(l, S_hash)
IsMsgidLine(l) == StartsWith(l, S_msgid)
IsMsgstrLine(l) == StartsWith(l, S_msgstr)
IsContinuationLine(l) == StartsWith(l, <<Q>>)

\* A fix() that ran and completed on the current Source
FixCompleted == first.op = "fix" /\ first.status = "ok"

\* A parse(), alone or inside fix(), that ran and completed
ParseCompleted == first.op # "none" /\ first.status = "ok"

\* The blank and comment lines of ls, in order
NonEntryLines(ls) == SelectSeq(ls, LAMBDA l : IsBlankLine(l) \/ IsCommentLine(l))

\* C1: a fresh Source built from the lines a completed fix left, fixed with
\* the same arguments, completes without ParseError and returns False.
C1_FixIdempotent ==
    (gen >= 1 /\ first.op = "fix" /\ first.args = prev)
        => (first.status = "ok" /\ ~first.changed)

\* C2: after a completed fix every blank line and every comment line of the
\* input is still in lines, unchanged and in the same order.
C2_NonEntryLinesKept ==
    FixCompleted => NonEntryLines(lines) = NonEntryLines(original)

\* The lines k > i, up to line j, that follow the msgid line i inside its
\* entry: none is blank, none starts with msgid
InEntry(ls, i, j) ==
    \A k \in (i + 1)..j : ~IsBlankLine(Line(ls, k)) /\ ~IsMsgidLine(Line(ls, k))

\* The last line of the entry that starts at line i: its last msgstr or
\* continuation line (i itself when it has none)
LastEntryLine(ls, i) ==
    MaxOf({i} \cup {j \in Indexes(ls) :
                       /\ j > i
                       /\ InEntry(ls, i, j)
                       /\ IsMsgstrLine(Line(ls, j)) \/ IsContinuationLine(Line(ls, j))})

\* C5: a "Missing msgstr" error about an entry that has a msgid line reports
\* the 0-based index of that msgid line.  The entry is the one the cursor
\* was in: from its msgid line i to the reported line there is no blank
\* line, and no msgid or msgstr line follows i up to the reported line.
C5_MissingMsgstrLine ==
    (first.status = "ParseError" /\ first.msg = "Missing msgstr")
        => \A i \in Indexes(original) :
              ( /\ IsMsgidLine(Line(original, i))
                /\ i <= first.errline
                /\ \A k \in (i + 1)..(first.errline - 1) :
                      ~IsBlankLine(Line(original, k))
                /\ \A k \in (i + 1)..first.errline :
                      k < Len(original)
                          => /\ ~IsMsgidLine(Line(original, k))
                             /\ ~IsMsgstrLine(Line(original, k)) )
              => first.errline = i

\* C6: once parse() or fix() has been called on a Source, every later call
\* on it raises the misuse error and leaves lines and the entries as they
\* are.
C6_ParseOnce ==
    [][(first.op # "none" /\ gen' = gen)
          => (result'.status = "RuntimeError" /\ lines' = lines /\ entries' = entries)]_vars

\* C6's case: a second call on a Source built from no lines at all
C6_Witness ==
    /\ original = <<>>
    /\ first.op # "none"
    /\ result.status = "RuntimeError"

\* C7: after a completed parse the spans, in parse order, are non-empty,
\* do not overlap and increase.
C7_SpansOrdered ==
    ParseCompleted
        => \A i \in 1..Len(entries) :
              /\ entries[i].span.start < entries[i].span.end
              /\ i < Len(entries) => entries[i].span.end <= entries[i + 1].span.start

\* C7's case: two entries parsed, the second starting after a gap
C7_Witness ==
    /\ ParseCompleted
    /\ Len(entries) >= 2
    /\ entries[1].span.end < entries[2].span.start

\* C10: after a completed parse every entry's span starts at its msgid line
\* and ends one past its last msgstr or continuation line.
C10_SpanIsEntryRange ==
    ParseCompleted
        => \A i \in 1..Len(entries) :
              /\ IsMsgidLine(Line(original, entries[i].span.start))
              /\ entries[i].span.end = LastEntryLine(original, entries[i].span.start) + 1

\* Line i has, in the block of comment lines directly above it, a fuzzy
\* marker
FuzzyAbove(ls, i) ==
    \E j \in 0..(i - 1) :
        /\ IsFuzzyMarker(Line(ls, j))
        /\ \A k \in j..(i - 1) : IsCommentLine(Line(ls, k))

RECURSIVE Growth(_, _, _)
\* By how many lines fix(a) moves line i: what the entries that start above
\* it gain in lines
Growth(es, i, a) ==
    IF es = <<>> THEN 0
    ELSE (IF Head(es).span.start < i
          THEN Len(format(Head(es), a.line_length, a.cjk_width, a.no_msgid))
               - (Head(es).span.end - Head(es).span.start)
          ELSE 0)
         + Growth(Tail(es), i, a)

\* The entry that starts at line i of the input was not parsed
NotParsed(i) == \A n \in 1..Len(entries) : entries[n].span.start # i

\* The lines of the entry that starts at line i of the input are in lines
\* as they were
Untouched(i) ==
    \A k \in i..LastEntryLine(original, i) :
        LET m == k + Growth(entries, i, first.args)
        IN  m \in Indexes(lines) /\ Line(lines, m) = Line(original, k)

\* C3: after a completed fix, an entry with a fuzzy marker in the comment
\* block directly above its msgid line is not among the parsed entries and
\* its lines are in lines as they were.
C3_FuzzyUntouched ==
    FixCompleted
        => \A i \in Indexes(original) :
              (IsMsgidLine(Line(original, i)) /\ FuzzyAbove(original, i))
                  => (NotParsed(i) /\ Untouched(i))

\* The quoted lines of a format() output, without their quotes
QuotedContents(out) ==
    LET q == SelectSeq(out, IsContinuationLine)
    IN  [i \in 1..Len(q) |-> SubSeq(q[i], 2, Len(q[i]) - 1)]

\* C4: every quoted line format() emits for a wrapped field has a display
\* width (factor for a full-width character, 1 for any other) of at most
\* width - 2.
C4_WrappedLinesFit ==
    fmt_args # NoArgs
        => \A i \in 1..Len(QuotedContents(fmt_out)) :
              WidthTenths(QuotedContents(fmt_out)[i], fmt_args.cjk_width)
                  <= 10 * (fmt_args.line_length - 2)

\* The file fails to parse
Fails(ls) == ParseLoop(ls, -1, <<>>).status = "ParseError"

\* C8: when cli() returns, every matched path was processed exactly once,
\* a path whose fix raised ParseError was counted as an error and not
\* written, and identical + changed + errors is the number of paths.
C8_CliSurvivesParseError ==
    rc # -1
        => /\ \A i \in 1..Len(files0) : processed[i] = 1
           /\ \A i \in 1..Len(files0) : Fails(files0[i]) => files[i] = files0[i]
           /\ errors = Cardinality({i \in 1..Len(files0) : Fails(files0[i])})
           /\ identical + changed + errors = Len(files0)

\* C8's case: a run over three paths that has returned, the second of
\* which failed to parse and the third of which was rewritten
C8_Witness ==
    /\ rc # -1
    /\ Len(files0) = 3
    /\ ~Fails(files0[1])
    /\ Fails(files0[2])
    /\ ~Fails(files0[3])
    /\ files[3] # files0[3]
    /\ errors = 1

IsAscii(text) == \A i \in 1..Len(text) : ~is_full_width(text[i])
IsFullWidth(text) == \A i \in 1..Len(text) : is_full_width(text[i])

====
